---- MODULE Spec2Model ----
(***************************************************************************)
(* A model of marid: the Process wrapper (src/src/process.rs), the         *)
(* Composer with its fan-out thread and error slot (src/src/composer.rs)   *)
(* and the runners used by the repository's tests                          *)
(* (src/src/test_helpers.rs, src/tests/external_tests.rs).                 *)
(*                                                                         *)
(* Threads are interleaved one blocking point at a time: a blocking        *)
(* channel operation is an action whose guard is the condition under which *)
(* the operation completes.                                                *)
(***************************************************************************)
EXTENDS Integers, Sequences, FiniteSets, TLC

\* ------------------------------------------------------------------ bounds
\* Largest number of runners handed to Composer::new.
NumRunners == 2
\* Largest number of signal() calls the owner of the Process makes.
MaxSignals == 2
\* Largest number of ready() and wait() calls the owner makes, both counted.
MaxCalls == 3
\* Capacity of the Process's signal channel. launch() passes chan::sync(1024),
\* the unit tests chan::sync(9); the capacity is an argument of
\* MaridProcess::new, scaled down here so that a full channel is reachable.
SigCap == 1
\* Capacity of each per-runner channel, chan::sync(1024) in
\* take_runners_and_setup_signal_chan, scaled down for the same reason.
ChanCap == 1

\* Largest number of explicit Composer::setup() calls the owner makes.
MaxSetups == 1

\* --------------------------------------------------------------- constants
\* chan::sync(1): the failure-notification channel of Composer::run.
ErrChanCap == 1

Signals == {"INT", "HUP"}
Kinds == {"OnSignal", "Null", "Fail"}
\* The kinds of runner run under a Process: those of tests/external_tests.rs.
ProcessKinds == {"OnSignal", "Null"}

\* ------------------------------------------------------------------ values
\* Result<(), MaridError>: Ok(()) or Err(e); e is an opaque error, here a number.
Ok == [kind |-> "Ok", err |-> 0]
Err(e) == [kind |-> "Err", err |-> e]
NoResult == [kind |-> "None", err |-> 0]
\* ProcessError<MaridError>
RunnerError(e) == [kind |-> "RunnerError", err |-> e]
ResultAlreadyGiven == [kind |-> "ResultAlreadyGiven", err |-> 0]
CouldNotRecvResult == [kind |-> "CouldNotRecvResult", err |-> 0]
\* res.map_err(ProcessError::RunnerError)
MapErr(r) == IF r.kind = "Err" THEN RunnerError(r.err) ELSE r

\* The error values of runner i: the one its setup returns when it fails and
\* the one its run returns when it fails.
SetupErr(i) == 10 + i
RunErr(i) == 20 + i

VARIABLES
    \* ---- configuration (inputs), fixed by Init
    runners,      \* Composer.runners: sequence of [kind, setupOk]
    error_signal, \* Composer.error_signal
    \* ---- Composer
    cstate,       \* Composer.state: "Init" | "SetupDone"
    setupCalls,   \* per runner: how many times its setup was invoked
    cpc,          \* position of the thread inside Composer::run
    cres,         \* what Composer::run returned
    wpc,          \* per worker: "none" | "run" | "lock" | "notify" | "done"
    wres,         \* per runner: what its run returned
    chans,        \* per runner: the content of its channel
    put,          \* per runner: everything ever sent on its channel
    got,          \* per runner: everything its run received
    errSlot,      \* the Mutex<Option<MaridError>>: 0 is None
    lockHolder,   \* the worker holding the mutex, 0 if free
    writes,       \* every error written to the slot, in the order of the writes
    errChan,      \* number of notifications waiting in the error channel
    fpc,          \* fan-out thread: "none" | "select" | "bcast" | "done"
    fsig,         \* the signal the fan-out thread is broadcasting
    fidx,         \* index of the next sender the broadcast sends on
    observed,     \* every event the fan-out thread has taken from select
    spun,         \* TRUE once an iteration of the fan-out loop consumed nothing
    \* ---- the signal stream
    signals,      \* content of the inbound signal channel
    sigClosed,    \* TRUE when every Sender of the signal channel is dropped
    sent,         \* every signal put on the inbound channel, in order
    \* ---- MaridProcess
    pstate,       \* MaridProcess.state: "Init" | "SetupDone" | "Finished"
    setup_chan,   \* content of the setup result channel
    run_chan,     \* content of the run result channel
    published,    \* everything the thread ever sent: [chan, val]
    tpc,          \* background thread: "setup" | "run" | "done"
    callerPc,     \* owner: "idle"|"ready"|"wait"|"signal"|"drop"|"dropped"
    pending,      \* the signal a blocked signal() call is sending
    readyRes,     \* what the ready() calls returned, in order
    waitRes,      \* what the wait() calls returned, in order
    calls,        \* the ready()/wait() calls made, in order: [op, at]
    \* ---- a Composer driven directly, as in the tests of composer.rs
    mpc,          \* the thread owning the Composer: "idle" | "run" | "done"
    setups,       \* what the explicit Composer::setup() calls returned
    senderPc      \* the thread holding the signal Sender: "live" | "dropped"

cvars == <<cstate, setupCalls, cpc, cres, wpc, wres, chans, put, got, errSlot,
           lockHolder, writes, errChan, fpc, fsig, fidx, observed, spun>>
svars == <<signals, sigClosed, sent>>
pvars == <<pstate, setup_chan, run_chan, published, tpc, callerPc, pending,
           readyRes, waitRes, calls>>
mvars == <<mpc, setups, senderPc>>
cfgvars == <<runners, error_signal>>
vars == <<cfgvars, cvars, svars, pvars, mvars>>

N == Len(runners)
Ids == 1..N

\* ------------------------------------------------------------------ runners
\* What a runner's run returns. TestRunner ("OnSignal") returns on the first
\* signal it receives: Ok on INT, an error on anything else. NullRunner
\* ("Null") returns Ok and the failing thunk ("Fail") returns an error, both
\* without reading a signal (sig is then "").
RunOutcome(kind, i, sig) ==
    CASE kind = "OnSignal" -> IF sig = "INT" THEN Ok ELSE Err(RunErr(i))
      [] kind = "Null" -> Ok
      [] kind = "Fail" -> Err(RunErr(i))

\* ----------------------------------------------------------------- Composer
\* Composer::setup: the index of the first runner whose setup fails, 0 if none.
FirstFail ==
    IF \E i \in Ids : ~runners[i].setupOk
    THEN CHOOSE i \in Ids : /\ ~runners[i].setupOk
                            /\ \A j \in Ids : ~runners[j].setupOk => i <= j
    ELSE 0

\* Composer::setup: what it returns.
SetupOutcome == IF FirstFail = 0 THEN Ok ELSE Err(SetupErr(FirstFail))

\* A setup loop that goes on after a failure.
SetupInvokedAll == Ids

\* Composer::setup: the runners whose setup one call invokes (try! stops the loop).
SetupInvoked == IF FirstFail = 0 THEN Ids ELSE 1..FirstFail

\* Composer::setup: its effect on the Composer.
ComposerSetup ==
    /\ setupCalls' = [i \in Ids |-> IF i \in SetupInvoked
                                    THEN setupCalls[i] + 1 ELSE setupCalls[i]]
    /\ cstate' = IF FirstFail = 0 THEN "SetupDone" ELSE cstate

\* A take_error that loses the content of the slot.
TakeErrorNone(slot) == Ok

\* take_error: the result made of the content of the error slot.
TakeError(slot) == IF slot = 0 THEN Ok ELSE Err(slot)

\* The worker closure's write to the slot: *guard = Some(e).
SlotWrite(old, e) == e

\* A run that performs the setup whatever the state.
NeedsSetupAlways(st) == TRUE

\* Composer::run: match self.state { State::Init => try!(self.setup()), _ => {} }.
NeedsSetup(st) == st = "Init"

\* A run that goes on to spawn the threads when its setup has failed.
ComposerRunBeginNoTry ==
    /\ cpc = "idle"
    /\ IF NeedsSetup(cstate) THEN ComposerSetup
                              ELSE UNCHANGED <<setupCalls, cstate>>
    /\ wpc' = [i \in Ids |-> "run"]
    /\ fpc' = "select"
    /\ cpc' = "scope"
    /\ UNCHANGED <<cres, wres, chans, put, got, errSlot, lockHolder, writes,
                   errChan, fsig, fidx, observed, spun>>
    /\ UNCHANGED <<svars, cfgvars>>

\* Composer::run up to the spawning of the threads: the implicit setup, one
\* channel per runner, the fan-out thread and one worker per runner.
ComposerRunBegin ==
    /\ cpc = "idle"
    /\ IF NeedsSetup(cstate) /\ FirstFail # 0
       THEN /\ ComposerSetup
            /\ cres' = SetupOutcome
            /\ cpc' = "done"
            /\ UNCHANGED <<wpc, fpc>>
       ELSE /\ IF NeedsSetup(cstate) THEN ComposerSetup
                                       ELSE UNCHANGED <<setupCalls, cstate>>
            /\ wpc' = [i \in Ids |-> "run"]
            /\ fpc' = "select"
            /\ cpc' = "scope"
            /\ UNCHANGED cres
    /\ UNCHANGED <<wres, chans, put, got, errSlot, lockHolder, writes, errChan,
                   fsig, fidx, observed, spun>>
    /\ UNCHANGED <<svars, cfgvars>>

\* chan::sync(2): the report channel the tests of composer.rs hand to their
\* TestRunners, all of them sharing it.
ReportCap == 2

\* The worker closure, inside r.run(rc). NullRunner and the failing thunk
\* return without reading a signal; TestRunner::run takes its first signal
\* (signals.recv()) and goes on to report it on its sender.
WorkerRun(i) ==
    /\ wpc[i] = "run"
    /\ runners[i].kind = "OnSignal" => chans[i] # <<>>
    /\ IF runners[i].kind = "OnSignal"
       THEN /\ chans' = [chans EXCEPT ![i] = Tail(@)]
            /\ got' = [got EXCEPT ![i] = Append(@, Head(chans[i]))]
            /\ wpc' = [wpc EXCEPT ![i] = "report"]
            /\ UNCHANGED wres
       ELSE /\ LET res == RunOutcome(runners[i].kind, i, "")
               IN /\ wres' = [wres EXCEPT ![i] = res]
                  /\ wpc' = [wpc EXCEPT ![i] =
                                IF res.kind = "Ok" THEN "done" ELSE "lock"]
            /\ UNCHANGED <<chans, got>>
    /\ UNCHANGED <<cstate, setupCalls, cpc, cres, put, errSlot, lockHolder, writes,
                   errChan, fpc, fsig, fidx, observed, spun>>
    /\ UNCHANGED <<svars, pvars, mvars, cfgvars>>

\* TestRunner::run: self.sender.send(true | false) has completed and run
\* returns Ok on INT, an error on any other signal.
ReportDone(i) ==
    /\ wpc[i] = "report"
    /\ LET res == RunOutcome("OnSignal", i, got[i][Len(got[i])].sig)
       IN /\ wres' = [wres EXCEPT ![i] = res]
          /\ wpc' = [wpc EXCEPT ![i] = IF res.kind = "Ok" THEN "done" ELSE "lock"]
    /\ UNCHANGED <<cstate, setupCalls, cpc, cres, chans, put, got, errSlot,
                   lockHolder, writes, errChan, fpc, fsig, fidx, observed, spun>>
    /\ UNCHANGED <<svars, pvars, mvars, cfgvars>>

\* The reports waiting in the shared report channel of a Composer driven
\* directly: its owner is inside Composer::run and takes none before run
\* returns.
ReportsQueued ==
    Cardinality({j \in Ids : /\ runners[j].kind = "OnSignal"
                             /\ wpc[j] \in {"lock", "notify", "done"}})

\* TestRunner::run under a Composer driven directly: the send on the buffered
\* report channel completes when the buffer has room.
WorkerReport(i) ==
    /\ tpc = "off"
    /\ ReportsQueued < ReportCap
    /\ ReportDone(i)

\* TestRunner::run under a Process: the report channel is chan::sync(0), a
\* rendezvous, so the send completes when the owner of the Process calls
\* rc.recv() on the runner's report channel, and not before.
ReportRecv(i) ==
    /\ tpc # "off"
    /\ callerPc = "idle"
    /\ ReportDone(i)

\* The worker closure: err.lock() and *guard = Some(e).
WorkerLockWrite(i) ==
    /\ wpc[i] = "lock"
    /\ lockHolder = 0
    /\ lockHolder' = i
    /\ errSlot' = SlotWrite(errSlot, wres[i].err)
    /\ writes' = Append(writes, wres[i].err)
    /\ wpc' = [wpc EXCEPT ![i] = "notify"]
    /\ UNCHANGED <<cstate, setupCalls, cpc, cres, wres, chans, put, got,
                   errChan, fpc, fsig, fidx, observed, spun>>
    /\ UNCHANGED <<svars, pvars, mvars, cfgvars>>

\* The worker closure: err_sn.send(true), then the guard is dropped.
WorkerNotify(i) ==
    /\ wpc[i] = "notify"
    /\ errChan < ErrChanCap
    /\ errChan' = errChan + 1
    /\ lockHolder' = 0
    /\ wpc' = [wpc EXCEPT ![i] = "done"]
    /\ UNCHANGED <<cstate, setupCalls, cpc, cres, wres, chans, put, got,
                   errSlot, writes, fpc, fsig, fidx, observed, spun>>
    /\ UNCHANGED <<svars, pvars, mvars, cfgvars>>

\* signaling_thread: the event an arm of chan_select! took, and the start of
\* its loop over the senders.
FanTake(item) ==
    /\ observed' = Append(observed, item)
    /\ fsig' = item
    /\ fidx' = 1
    /\ fpc' = "bcast"

\* signaling_thread: signals.recv() yields a signal.
FanRecvSignal ==
    /\ fpc = "select"
    /\ signals # <<>>
    /\ FanTake([sig |-> Head(signals), src |-> "ext"])
    /\ signals' = Tail(signals)
    /\ UNCHANGED <<cstate, setupCalls, cpc, cres, wpc, wres, chans, put, got,
                   errSlot, lockHolder, writes, errChan, spun>>
    /\ UNCHANGED <<sigClosed, sent, pvars, mvars, cfgvars>>

\* A fan-out thread that takes the notification and broadcasts nothing.
FanRecvErrorDrop ==
    /\ fpc = "select"
    /\ errChan > 0
    /\ errChan' = errChan - 1
    /\ UNCHANGED <<cstate, setupCalls, cpc, cres, wpc, wres, chans, put, got,
                   errSlot, lockHolder, writes, fpc, fsig, fidx, observed, spun>>
    /\ UNCHANGED <<svars, pvars, mvars, cfgvars>>

\* A fan-out thread whose error arm fires without a notification.
FanRecvErrorSpurious ==
    /\ fpc = "select"
    /\ errChan' = IF errChan > 0 THEN errChan - 1 ELSE errChan
    /\ FanTake([sig |-> error_signal, src |-> "err"])
    /\ UNCHANGED <<cstate, setupCalls, cpc, cres, wpc, wres, chans, put, got,
                   errSlot, lockHolder, writes, spun>>
    /\ UNCHANGED <<svars, pvars, mvars, cfgvars>>

\* signaling_thread: error.recv() yields a notification.
FanRecvError ==
    /\ fpc = "select"
    /\ errChan > 0
    /\ errChan' = errChan - 1
    /\ FanTake([sig |-> error_signal, src |-> "err"])
    /\ UNCHANGED <<cstate, setupCalls, cpc, cres, wpc, wres, chans, put, got,
                   errSlot, lockHolder, writes, spun>>
    /\ UNCHANGED <<svars, pvars, mvars, cfgvars>>

\* A loop over the senders that sends on the first one every time.
FanTargetFirst(idx) == 1

\* signaling_thread: the channel the next sn.send of the loop sends on.
FanTarget(idx) == idx

\* A loop over the senders that stops after the first one.
FanLastEarly(idx) == TRUE

\* signaling_thread: TRUE when the send on senders[idx] is the last of the loop.
FanLast(idx) == idx >= N

\* signaling_thread: one sn.send(sig) of the loop over the senders; it
\* completes when the channel has room.
FanSend ==
    /\ fpc = "bcast"
    /\ LET t == FanTarget(fidx)
       IN /\ Len(chans[t]) < ChanCap
          /\ chans' = [chans EXCEPT ![t] = Append(@, fsig)]
          /\ put' = [put EXCEPT ![t] = Append(@, fsig)]
    /\ IF FanLast(fidx) THEN /\ fidx' = 0
                              /\ fpc' = "select"
                         ELSE /\ fidx' = fidx + 1
                              /\ fpc' = fpc
    /\ UNCHANGED <<cstate, setupCalls, cpc, cres, wpc, wres, got, errSlot,
                   lockHolder, writes, errChan, fsig, observed, spun>>
    /\ UNCHANGED <<svars, pvars, mvars, cfgvars>>

\* A scope that returns without joining the threads spawned in it.
ScopeJoinedNow == TRUE

\* crossbeam::scope: every thread spawned in the scope has finished.
ScopeJoined == \A i \in Ids : wpc[i] = "done"

\* Composer::run: crossbeam::scope returns once every worker has finished.
ComposerJoinWorkers ==
    /\ cpc = "scope"
    /\ ScopeJoined
    /\ cpc' = "stop"
    /\ UNCHANGED <<cstate, setupCalls, cres, wpc, wres, chans, put, got,
                   errSlot, lockHolder, writes, errChan, fpc, fsig, fidx,
                   observed, spun>>
    /\ UNCHANGED <<svars, pvars, mvars, cfgvars>>

\* stop_sn.send(true) meets quit.recv(): a rendezvous; the fan-out thread returns.
FanQuit ==
    /\ fpc = "select"
    /\ cpc = "stop"
    /\ fpc' = "done"
    /\ cpc' = "join"
    /\ UNCHANGED <<cstate, setupCalls, cres, wpc, wres, chans, put, got,
                   errSlot, lockHolder, writes, errChan, fsig, fidx,
                   observed, spun>>
    /\ UNCHANGED <<svars, pvars, mvars, cfgvars>>

\* Composer::run: signaling.join() and take_error(error).
ComposerFinish ==
    /\ cpc = "join"
    /\ fpc = "done"
    /\ cres' = TakeError(errSlot)
    /\ errSlot' = 0
    /\ cpc' = "done"
    /\ UNCHANGED <<cstate, setupCalls, wpc, wres, chans, put, got, lockHolder, writes,
                   errChan, fpc, fsig, fidx, observed, spun>>
    /\ UNCHANGED <<svars, pvars, mvars, cfgvars>>

\* ------------------------------------------------------------- MaridProcess
\* A thread that goes on to run whatever setup returned.
ThreadAfterSetupAlways(res) == "run"

\* spawn_run_thread: if !is_err the thread goes on to run, otherwise it ends.
ThreadAfterSetup(res) == IF res.kind = "Ok" THEN "run" ELSE "done"

\* A thread that does not send the setup result.
ThreadSetupNoSend ==
    /\ tpc = "setup"
    /\ ComposerSetup
    /\ tpc' = ThreadAfterSetup(MapErr(SetupOutcome))
    /\ UNCHANGED <<cpc, cres, wpc, wres, chans, put, got, errSlot, lockHolder, writes,
                   errChan, fpc, fsig, fidx, observed, spun>>
    /\ UNCHANGED <<pstate, setup_chan, run_chan, published, callerPc, pending,
                   readyRes, waitRes, calls>>
    /\ UNCHANGED <<svars, mvars, cfgvars>>

\* A send that completes only when the owner is receiving: a rendezvous.
PublishReadyRendezvous(receiving) == receiving

\* mpsc::Sender::send on an mpsc::channel(): the channel is unbounded and its
\* Receiver lives in the MaridProcess, so the send completes at once whether
\* or not the owner is receiving.
PublishReady(receiving) == TRUE

\* spawn_run_thread: runner.setup(), setup.send(res); a failed setup ends the
\* thread, which drops both senders.
ThreadSetup ==
    /\ tpc = "setup"
    /\ PublishReady(callerPc = "ready")
    /\ ComposerSetup
    /\ LET res == MapErr(SetupOutcome)
       IN /\ setup_chan' = Append(setup_chan, res)
          /\ published' = Append(published, [chan |-> "setup", val |-> res])
          /\ tpc' = ThreadAfterSetup(res)
    /\ UNCHANGED <<cpc, cres, wpc, wres, chans, put, got, errSlot, lockHolder, writes,
                   errChan, fpc, fsig, fidx, observed, spun>>
    /\ UNCHANGED <<pstate, run_chan, callerPc, pending, readyRes, waitRes, calls>>
    /\ UNCHANGED <<svars, mvars, cfgvars>>

\* spawn_run_thread: runner.run(recv) is entered.
ThreadRun ==
    /\ tpc = "run"
    /\ ComposerRunBegin
    /\ UNCHANGED <<pvars, mvars>>

\* spawn_run_thread: runner.run(recv) has returned; run.send(err) and the
\* thread ends.
ThreadSendRun ==
    /\ tpc = "run"
    /\ cpc = "done"
    /\ PublishReady(callerPc = "wait")
    /\ LET res == MapErr(cres)
       IN /\ run_chan' = Append(run_chan, res)
          /\ published' = Append(published, [chan |-> "run", val |-> res])
    /\ tpc' = "done"
    /\ UNCHANGED <<pstate, setup_chan, callerPc, pending, readyRes, waitRes, calls>>
    /\ UNCHANGED <<cvars, svars, mvars, cfgvars>>

\* A ready() whose guard lets a second call through to the recv.
ReadyValidLoose(st) == st # "Finished"

\* A ready() whose guard lets a call made after wait() through to the recv.
ReadyValidAfterWait(st) == st # "SetupDone"

\* ready(): the states in which it takes the setup result.
ReadyValid(st) == st = "Init"

\* A wait() without the Finished arm.
WaitValidLoose(st) == TRUE

\* wait(): the states in which it takes the run result.
WaitValid(st) == st \in {"Init", "SetupDone"}

\* ready(): the call, up to the blocking recv on setup_chan.
ReadyCall ==
    /\ callerPc = "idle"
    /\ Len(calls) < MaxCalls
    /\ calls' = Append(calls, [op |-> "ready", at |-> pstate])
    /\ IF ReadyValid(pstate)
       THEN /\ pstate' = "SetupDone"
            /\ callerPc' = "ready"
            /\ UNCHANGED readyRes
       ELSE /\ readyRes' = Append(readyRes, ResultAlreadyGiven)
            /\ UNCHANGED <<pstate, callerPc>>
    /\ UNCHANGED <<setup_chan, run_chan, published, tpc, pending, waitRes>>
    /\ UNCHANGED <<cvars, svars, mvars, cfgvars>>

\* mpsc recv().unwrap_or(Err(CouldNotRecvResult)) on a channel whose senders
\* are all dropped exactly when the thread has ended (senderGone).
RecvResult(ch, senderGone) ==
    IF ch # <<>> THEN Head(ch) ELSE CouldNotRecvResult

\* A recv() that waits for a value whatever becomes of the senders.
RecvReadyValueOnly(ch, senderGone) == ch # <<>>

\* mpsc recv(): it returns when a value is queued or every sender is dropped.
RecvReady(ch, senderGone) == ch # <<>> \/ senderGone

\* ready(): setup_chan.recv() returns.
ReadyReturn ==
    /\ callerPc = "ready"
    /\ RecvReady(setup_chan, tpc = "done")
    /\ readyRes' = Append(readyRes, RecvResult(setup_chan, tpc = "done"))
    /\ setup_chan' = IF setup_chan # <<>> THEN Tail(setup_chan) ELSE setup_chan
    /\ callerPc' = "idle"
    /\ UNCHANGED <<pstate, run_chan, published, tpc, pending, waitRes, calls>>
    /\ UNCHANGED <<cvars, svars, mvars, cfgvars>>

\* A wait() that puts the state back to Init.
WaitSetsInit == "Init"

\* wait(): self.state.set(ProcState::Finished).
WaitSets == "Finished"

\* wait(): the call, up to the blocking recv on run_chan.
WaitCall ==
    /\ callerPc = "idle"
    /\ Len(calls) < MaxCalls
    /\ calls' = Append(calls, [op |-> "wait", at |-> pstate])
    /\ IF WaitValid(pstate)
       THEN /\ pstate' = WaitSets
            /\ callerPc' = "wait"
            /\ UNCHANGED waitRes
       ELSE /\ waitRes' = Append(waitRes, ResultAlreadyGiven)
            /\ UNCHANGED <<pstate, callerPc>>
    /\ UNCHANGED <<setup_chan, run_chan, published, tpc, pending, readyRes>>
    /\ UNCHANGED <<cvars, svars, mvars, cfgvars>>

\* wait(): run_chan.recv() returns.
WaitReturn ==
    /\ callerPc = "wait"
    /\ RecvReady(run_chan, tpc = "done")
    /\ waitRes' = Append(waitRes, RecvResult(run_chan, tpc = "done"))
    /\ run_chan' = IF run_chan # <<>> THEN Tail(run_chan) ELSE run_chan
    /\ callerPc' = "idle"
    /\ UNCHANGED <<pstate, setup_chan, published, tpc, pending, readyRes, calls>>
    /\ UNCHANGED <<cvars, svars, mvars, cfgvars>>

\* chan send on a bounded channel: it completes when the buffer has room.
SendReady(ch, cap) == Len(ch) < cap

\* signal(): self.signaler.send(signal); the call returns when the send
\* completes and is blocked in the send until then.
SignalCall(s) ==
    /\ callerPc = "idle"
    /\ Len(sent) < MaxSignals
    /\ IF SendReady(signals, SigCap)
       THEN /\ signals' = Append(signals, s)
            /\ sent' = Append(sent, s)
            /\ UNCHANGED <<callerPc, pending>>
       ELSE /\ callerPc' = "signal"
            /\ pending' = s
            /\ UNCHANGED <<signals, sent>>
    /\ UNCHANGED <<pstate, setup_chan, run_chan, published, tpc, readyRes,
                   waitRes, calls, sigClosed>>
    /\ UNCHANGED <<cvars, mvars, cfgvars>>

\* signal(): the blocked send completes.
SignalReturn ==
    /\ callerPc = "signal"
    /\ SendReady(signals, SigCap)
    /\ signals' = Append(signals, pending)
    /\ sent' = Append(sent, pending)
    /\ callerPc' = "idle"
    /\ pending' = ""
    /\ UNCHANGED <<pstate, setup_chan, run_chan, published, tpc, readyRes,
                   waitRes, calls, sigClosed>>
    /\ UNCHANGED <<cvars, mvars, cfgvars>>

\* launch: chan_signal::notify_on(&signal_send, sig) gives the inbound
\* channel a second producer. When the operating system delivers a
\* subscribed signal it is put on the channel, whatever the owner of the
\* Process is doing; with the channel full the signal does not get in.
OsSignal(s) ==
    /\ tpc # "off"
    /\ Len(sent) + (IF callerPc = "signal" THEN 1 ELSE 0) < MaxSignals
    /\ SendReady(signals, SigCap)
    /\ signals' = Append(signals, s)
    /\ sent' = Append(sent, s)
    /\ UNCHANGED <<sigClosed, cvars, pvars, mvars, cfgvars>>

\* Drop for MaridProcess: drop is entered.
DropCall ==
    /\ callerPc = "idle"
    /\ callerPc' = "drop"
    /\ UNCHANGED <<pstate, setup_chan, run_chan, published, tpc, pending,
                   readyRes, waitRes, calls>>
    /\ UNCHANGED <<cvars, svars, mvars, cfgvars>>

\* A drop that does not join.
JoinReadyNow(t) == TRUE

\* JoinHandle::join: it returns when the thread has ended.
JoinReady(t) == t = "done"

\* Drop for MaridProcess: runner.join() returns and drop completes.
DropJoin ==
    /\ callerPc = "drop"
    /\ JoinReady(tpc)
    /\ callerPc' = "dropped"
    /\ UNCHANGED <<pstate, setup_chan, run_chan, published, tpc, pending,
                   readyRes, waitRes, calls>>
    /\ UNCHANGED <<cvars, svars, mvars, cfgvars>>

\* ------------------------------------------- a Composer driven directly
\* The owner calls Composer::setup() itself, as the tests of composer.rs do.
MainSetup ==
    /\ mpc = "idle"
    /\ Len(setups) < MaxSetups
    /\ ComposerSetup
    /\ setups' = Append(setups, SetupOutcome)
    /\ UNCHANGED <<cpc, cres, wpc, wres, chans, put, got, errSlot, lockHolder, writes,
                   errChan, fpc, fsig, fidx, observed, spun>>
    /\ UNCHANGED <<mpc, senderPc, svars, pvars, cfgvars>>

\* The owner calls Composer::run(signals), which consumes the Composer.
MainRun ==
    /\ mpc = "idle"
    /\ ComposerRunBegin
    /\ mpc' = "run"
    /\ UNCHANGED <<setups, senderPc, pvars>>

\* The thread holding the Sender of a chan::async() channel sends a signal;
\* the send never blocks.
SenderSend(s) ==
    /\ senderPc = "live"
    /\ Len(sent) < MaxSignals
    /\ sent' = Append(sent, s)
    /\ signals' = Append(signals, s)
    /\ UNCHANGED <<sigClosed, cvars, pvars, mvars, cfgvars>>

\* The thread holding the Sender ends: the Sender is dropped and the channel
\* is closed.
SenderDrop ==
    /\ senderPc = "live"
    /\ senderPc' = "dropped"
    /\ sigClosed' = TRUE
    /\ UNCHANGED <<signals, sent, mpc, setups, cvars, pvars, cfgvars>>

\* signaling_thread: signals.recv() yields None on the closed, empty channel
\* and the loop continues.
FanRecvClosed ==
    /\ fpc = "select"
    /\ signals = <<>>
    /\ sigClosed
    /\ spun' = TRUE
    /\ UNCHANGED <<cstate, setupCalls, cpc, cres, wpc, wres, chans, put, got,
                   errSlot, lockHolder, writes, errChan, fpc, fsig, fidx,
                   observed>>
    /\ UNCHANGED <<svars, pvars, mvars, cfgvars>>

\* ------------------------------------------------------------ specification
\* The runners a Composer is built from: 1 to NumRunners of them, each of one
\* of the kinds, its setup succeeding or not.
Configs(kinds) ==
    UNION {[1..n -> [kind : kinds, setupOk : BOOLEAN]] : n \in 1..NumRunners}

\* What Composer::new leaves, whoever drives the Composer afterwards.
InitComposer ==
    /\ cstate = "Init"
    /\ setupCalls = [i \in 1..Len(runners) |-> 0]
    /\ cpc = "idle"
    /\ cres = NoResult
    /\ wpc = [i \in 1..Len(runners) |-> "none"]
    /\ wres = [i \in 1..Len(runners) |-> NoResult]
    /\ chans = [i \in 1..Len(runners) |-> <<>>]
    /\ put = [i \in 1..Len(runners) |-> <<>>]
    /\ got = [i \in 1..Len(runners) |-> <<>>]
    /\ errSlot = 0
    /\ lockHolder = 0
    /\ writes = <<>>
    /\ errChan = 0
    /\ fpc = "none"
    /\ fsig = [sig |-> "", src |-> ""]
    /\ fidx = 0
    /\ observed = <<>>
    /\ spun = FALSE
    /\ signals = <<>>
    /\ sigClosed = FALSE
    /\ sent = <<>>
    /\ pstate = "Init"
    /\ setup_chan = <<>>
    /\ run_chan = <<>>
    /\ published = <<>>
    /\ pending = ""
    /\ readyRes = <<>>
    /\ waitRes = <<>>
    /\ calls = <<>>
    /\ setups = <<>>

\* launch(Composer::new(runners, Signal::INT), ..) with the runners of
\* tests/external_tests.rs: MaridProcess::new has spawned the thread, which
\* has not run yet.
InitProcess ==
    /\ runners \in Configs(ProcessKinds)
    /\ error_signal = "INT"
    /\ InitComposer
    /\ tpc = "setup"
    /\ callerPc = "idle"
    /\ mpc = "off"
    /\ senderPc = "off"

\* Composer::new(runners, error_signal) with the runners of the tests of
\* composer.rs, and a chan::async() signal channel whose Sender another
\* thread holds.
InitDirect ==
    /\ runners \in Configs(Kinds)
    /\ error_signal \in Signals
    /\ InitComposer
    /\ tpc = "off"
    /\ callerPc = "off"
    /\ mpc = "idle"
    /\ senderPc = "live"

Init == InitProcess \/ InitDirect

Next ==
    \/ ThreadSetup
    \/ ThreadRun
    \/ ComposerJoinWorkers
    \/ ComposerFinish
    \/ ThreadSendRun
    \/ \E i \in Ids : WorkerRun(i)
    \/ \E i \in Ids : WorkerReport(i)
    \/ \E i \in Ids : ReportRecv(i)
    \/ \E i \in Ids : WorkerLockWrite(i)
    \/ \E i \in Ids : WorkerNotify(i)
    \/ FanRecvSignal
    \/ FanRecvError
    \/ FanRecvClosed
    \/ FanSend
    \/ FanQuit
    \/ ReadyCall
    \/ ReadyReturn
    \/ WaitCall
    \/ WaitReturn
    \/ \E s \in Signals : SignalCall(s)
    \/ SignalReturn
    \/ \E s \in Signals : OsSignal(s)
    \/ DropCall
    \/ DropJoin
    \/ MainSetup
    \/ MainRun
    \/ \E s \in Signals : SenderSend(s)
    \/ SenderDrop

Spec == Init /\ [][Next]_vars

\* Every spawned thread is scheduled: a thread that can take its next step, or
\* whose blocking call can return, eventually does. chan_select! picks among
\* its ready arms at random, so no ready arm is passed over forever. The
\* calls the owners choose to make (ready, wait, signal, drop, taking a
\* runner's report, setup, run, sending a signal) and the signals of the
\* operating system carry no fairness.
Fairness ==
    /\ WF_vars(ThreadSetup)
    /\ WF_vars(ThreadRun)
    /\ WF_vars(ComposerJoinWorkers)
    /\ WF_vars(ComposerFinish)
    /\ WF_vars(ThreadSendRun)
    /\ \A i \in 1..NumRunners : WF_vars(i \in Ids /\ WorkerRun(i))
    /\ \A i \in 1..NumRunners : WF_vars(i \in Ids /\ WorkerReport(i))
    /\ \A i \in 1..NumRunners : WF_vars(i \in Ids /\ WorkerLockWrite(i))
    /\ \A i \in 1..NumRunners : WF_vars(i \in Ids /\ WorkerNotify(i))
    /\ WF_vars(FanRecvSignal)
    /\ WF_vars(FanRecvError)
    /\ WF_vars(FanSend)
    /\ WF_vars(FanQuit)
    /\ WF_vars(ReadyReturn)
    /\ WF_vars(WaitReturn)
    /\ WF_vars(SignalReturn)
    /\ WF_vars(DropJoin)

FairSpec == Spec /\ Fairness

\* ------------------------------------------------------------------ claims
InProcess == tpc # "off"
ReadyCalls == SelectSeq(calls, LAMBDA c : c.op = "ready")
WaitCalls == SelectSeq(calls, LAMBDA c : c.op = "wait")
\* The first ready() was called before any wait().
ReadyBeforeWait == calls # <<>> /\ calls[1].op = "ready"

\* C1 as stated: the first call to ready() returns the outcome of the
\* runner's setup.
C1_FirstReadyGivesSetup ==
    readyRes # <<>> => readyRes[1] = MapErr(SetupOutcome)

\* C1 amended: the first call to ready(), when no wait() was called before
\* it, returns the outcome of the runner's setup; every other call to ready()
\* returns ResultAlreadyGiven without blocking; and the runner's setup is
\* invoked exactly once however many times ready() is called.
C1_ReadyOnce ==
    /\ \A k \in 1..Len(readyRes) :
          readyRes[k] = IF k = 1 /\ ReadyBeforeWait THEN MapErr(SetupOutcome)
                                                    ELSE ResultAlreadyGiven
    /\ callerPc = "ready" => readyRes = <<>> /\ ReadyBeforeWait
    /\ InProcess => /\ \A i \in Ids : setupCalls[i] <= 1
                    /\ setupCalls[1] = IF tpc = "setup" THEN 0 ELSE 1

C1_Witness ==
    /\ Len(readyRes) = 2
    /\ ReadyBeforeWait
    /\ readyRes[2] = ResultAlreadyGiven

\* C2 as stated: the first call to wait() returns the runner's run outcome.
C2_FirstWaitGivesRun ==
    waitRes # <<>> => cres.kind \in {"Ok", "Err"} /\ waitRes[1] = MapErr(cres)

\* C2 amended: the first call to wait(), with or without a prior ready(),
\* returns the runner's run outcome when the runner's setup succeeded and
\* CouldNotRecvResult when it failed; it takes nothing from the setup result
\* channel, whose value stays queued until a ready() takes it; every later
\* call to wait() returns ResultAlreadyGiven without blocking.
C2_WaitOnce ==
    /\ \A k \in 1..Len(waitRes) :
          waitRes[k] = IF k > 1 THEN ResultAlreadyGiven
                       ELSE IF FirstFail # 0 THEN CouldNotRecvResult
                       ELSE MapErr(cres)
    /\ waitRes # <<>> /\ FirstFail = 0 => cres.kind \in {"Ok", "Err"}
    /\ callerPc = "wait" => waitRes = <<>>
    /\ InProcess /\ tpc # "setup" =>
          IF readyRes # <<>> /\ ReadyBeforeWait
          THEN setup_chan = <<>>
          ELSE setup_chan = <<MapErr(SetupOutcome)>>

C2_Witness ==
    /\ Len(waitRes) = 2
    /\ waitRes[1] = Ok
    /\ waitRes[2] = ResultAlreadyGiven
    /\ readyRes = <<>>
    /\ setup_chan # <<>>

\* C3: when the drop of a Process has completed, its background thread has
\* ended: the runner's setup was invoked and, if it succeeded, the runner's
\* run has returned (every worker and the fan-out thread have ended),
\* whether or not ready() or wait() was ever called.
C3_DropJoins ==
    callerPc = "dropped" =>
        /\ tpc = "done"
        /\ setupCalls[1] = 1
        /\ FirstFail = 0 => /\ cpc = "done"
                            /\ fpc = "done"
                            /\ \A i \in Ids : wpc[i] = "done"

C3_Witness ==
    /\ callerPc = "dropped"
    /\ calls = <<>>
    /\ FirstFail = 0
    /\ cres.kind = "Err"

\* C4: signal() never blocks: no call to signal() is ever left waiting in
\* its send for the signal channel to be read.
C4_SignalNeverBlocks == callerPc # "signal"

IsPrefix(a, b) == Len(a) <= Len(b) /\ \A k \in 1..Len(a) : a[k] = b[k]
ExtItem(s) == [sig |-> s, src |-> "ext"]
ErrItem == [sig |-> error_signal, src |-> "err"]
Failed(i) == wres[i].kind = "Err"
SomeFailed == \E i \in Ids : Failed(i)

\* The case of C5: under a Process, a Composer of runners that all succeed on
\* INT and whose setups succeed, and INT put once on the inbound channel.
C5_Scenario ==
    /\ InProcess
    /\ \A i \in Ids : runners[i].kind = "OnSignal" /\ runners[i].setupOk
    /\ sent = <<"INT">>

\* C5: for every number of runners that succeed on the shutdown signal, when
\* that signal is sent once, each runner's channel gets exactly one copy of
\* it and every runner receives it; every runner whose run gets to its end
\* (a TestRunner returns once the owner has taken its report) has received
\* that one copy and returns Ok; once all have returned the background
\* thread ends, and a wait() then returns Ok(()).
C5_Shutdown ==
    /\ [](C5_Scenario =>
            /\ \A i \in Ids : IsPrefix(put[i], <<ExtItem("INT")>>)
            /\ \A i \in Ids : wpc[i] \in {"report", "done"} =>
                                 got[i] = <<ExtItem("INT")>>
            /\ \A i \in Ids : wpc[i] \in {"none", "run", "report", "done"}
            /\ \A i \in Ids : wpc[i] = "done" => wres[i] = Ok
            /\ cpc = "done" => cres = Ok
            /\ waitRes # <<>> => waitRes[1] = Ok)
    /\ (C5_Scenario ~>
            \/ Len(sent) > 1
            \/ \A i \in Ids : /\ wpc[i] \in {"report", "done"}
                               /\ put[i] = <<ExtItem("INT")>>)
    /\ (C5_Scenario /\ (\A i \in Ids : wpc[i] = "done") ~>
            Len(sent) > 1 \/ tpc = "done")
    /\ (C5_Scenario /\ (\A i \in Ids : wpc[i] = "done") /\ callerPc = "wait" ~>
            Len(sent) > 1 \/ (waitRes # <<>> /\ waitRes[1] = Ok))

C5_Witness ==
    /\ C5_Scenario
    /\ N = NumRunners
    /\ waitRes = <<Ok>>
    /\ \A i \in Ids : got[i] = <<ExtItem("INT")>>

\* C6 as stated: Composer.run returns Err carrying a worker's failure if some
\* runner's run failed and Ok(()) if none did.
C6_ErrIffWorkerFailed ==
    cpc = "done" =>
        IF SomeFailed THEN cres.kind = "Err" /\ \E i \in Ids : cres = wres[i]
                      ELSE cres = Ok

\* C6 amended: Composer.run, when its setup phase succeeded (done before run
\* or by run itself), returns Err carrying a worker's failure if at least one
\* runner's run returned a failure and Ok(()) if no runner's run failed; when
\* its implicit setup fails it returns that setup failure, no runner having
\* run; under a Process the failing case is seen by wait() as
\* Err(RunnerError(_)) carrying a worker's failure.
C6_Aggregate ==
    /\ cpc = "done" =>
          IF \A i \in Ids : wpc[i] = "none"
          THEN FirstFail # 0 /\ cres = SetupOutcome /\ ~SomeFailed
          ELSE IF SomeFailed
               THEN cres.kind = "Err" /\ \E i \in Ids : cres = wres[i]
               ELSE cres = Ok
    /\ InProcess /\ waitRes # <<>> /\ SomeFailed =>
          /\ waitRes[1].kind = "RunnerError"
          /\ \E i \in Ids : Failed(i) /\ waitRes[1].err = wres[i].err

C6_Witness ==
    /\ InProcess
    /\ cpc = "done"
    /\ \E i \in Ids : Failed(i) /\ cres = wres[i]
    /\ \E i \in Ids : wres[i] = Ok
    /\ waitRes # <<>>
    /\ waitRes[1].kind = "RunnerError"

\* C7 as stated, for the runners that wait for a signal: a runner whose run
\* returns after another runner's run has failed has observed the error
\* signal the fan-out thread broadcast.
C7_SurvivorsSeeError ==
    [][\A j \in Ids :
          (/\ runners[j].kind = "OnSignal"
           /\ wpc[j] = "run"
           /\ wpc'[j] # "run"
           /\ \E i \in Ids \ {j} : Failed(i))
          => \E k \in 1..Len(got'[j]) : got'[j][k].src = "err"]_vars

\* C7 amended: if exactly one runner's run fails while another runner of the
\* same Composer is still in its run waiting for a signal, and no external
\* signal is sent, the fan-out thread broadcasts the configured error signal
\* to every per-runner channel, so every such surviving runner observes the
\* error signal (and nothing else) before its own run returns; Composer.run
\* then returns Err.
C7_ErrorBroadcast ==
    /\ [](sent = <<>> =>
            \A j \in Ids :
               runners[j].kind = "OnSignal" /\ wpc[j] \notin {"none", "run"}
                  => got[j] = <<ErrItem>>)
    /\ [](cpc = "done" /\ SomeFailed => cres.kind = "Err")
    /\ \A j \in 1..NumRunners :
          (/\ j \in Ids
           /\ runners[j].kind = "OnSignal"
           /\ wpc[j] = "run"
           /\ \E i \in Ids : Failed(i))
          ~> (\/ sent # <<>>
              \/ j \in Ids /\ wpc[j] # "run" /\ got[j] = <<ErrItem>>)
    /\ (/\ Cardinality({i \in Ids : Failed(i)}) = 1
        /\ \E j \in Ids : runners[j].kind = "OnSignal" /\ wpc[j] = "run")
          ~> (\/ sent # <<>>
              \/ Cardinality({i \in Ids : Failed(i)}) > 1
              \/ /\ \A k \in Ids : put[k] = <<ErrItem>>
                 /\ cpc = "done"
                 /\ cres.kind = "Err")

C7_Witness ==
    /\ sent = <<>>
    /\ cpc = "done"
    /\ cres.kind = "Err"
    /\ \A k \in Ids : put[k] = <<ErrItem>>
    /\ \E i, j \in Ids :
          /\ runners[i].kind = "Fail"
          /\ runners[j].kind = "OnSignal"
          /\ wres[j] = Ok
          /\ got[j] = <<ErrItem>>

\* C8: the error slot keeps the failure written first, and Composer.run
\* returns the failure of the worker that wrote first.
C8_FirstWriterWins ==
    /\ writes # <<>> /\ cpc # "done" => errSlot = writes[1]
    /\ writes # <<>> /\ cpc = "done" => cres = Err(writes[1])

\* C9: what the fan-out thread has put on each per-runner channel is a
\* prefix of the events it has observed, the external signals among these
\* being the signals sent, in the order sent, and every failure notification
\* appearing as the configured error signal; each runner's channel hands
\* over what was put on it, in order, nothing dropped or duplicated.
C9_FanoutOrder ==
    /\ \A i \in Ids : IsPrefix(put[i], observed)
    /\ \A i \in Ids : put[i] = got[i] \o chans[i]
    /\ \A i, j \in Ids : i < j => IsPrefix(put[j], put[i])
    /\ LET ext == SelectSeq(observed, LAMBDA x : x.src = "ext")
       IN IsPrefix([k \in 1..Len(ext) |-> ext[k].sig], sent)
    /\ \A k \in 1..Len(observed) :
          observed[k].src = "err" => observed[k].sig = error_signal

C9_Witness ==
    /\ N >= 2
    /\ \A i \in Ids : Len(put[i]) >= 2
    /\ \E k \in 1..Len(observed) : observed[k].src = "err"
    /\ \E k \in 1..Len(observed) : observed[k].src = "ext"

\* C10: if the runner's setup fails under a Process, the background thread
\* never invokes the runner's run (no worker, no fan-out thread, no run
\* result), and ready() returns RunnerError carrying that setup failure.
C10_SetupFailureSkipsRun ==
    InProcess /\ FirstFail # 0 =>
        /\ cpc = "idle"
        /\ fpc = "none"
        /\ \A i \in Ids : wpc[i] = "none" /\ wres[i] = NoResult
        /\ run_chan = <<>>
        /\ tpc \in {"setup", "done"}
        /\ readyRes # <<>> /\ ReadyBeforeWait =>
              readyRes[1] = RunnerError(SetupErr(FirstFail))

C10_Witness ==
    /\ InProcess
    /\ FirstFail = NumRunners
    /\ tpc = "done"
    /\ readyRes # <<>>
    /\ readyRes[1] = RunnerError(SetupErr(NumRunners))

\* C11: ready() is valid only in state Init. A ready() called in any other
\* state, and so one called after wait() has been called (state Finished),
\* returns ResultAlreadyGiven without blocking, leaves the state as it is
\* (Finished stays Finished), and takes nothing from the setup result channel.
C11_ReadyAfterWait ==
    [][(/\ Len(calls') = Len(calls) + 1
        /\ calls'[Len(calls')].op = "ready"
        /\ pstate # "Init")
       => /\ pstate' = pstate
          /\ callerPc' = "idle"
          /\ readyRes' = Append(readyRes, ResultAlreadyGiven)
          /\ setup_chan' = setup_chan]_vars

C11_Witness ==
    /\ Len(calls) = 2
    /\ calls[1].op = "wait"
    /\ calls[2] = [op |-> "ready", at |-> "Finished"]
    /\ pstate = "Finished"
    /\ callerPc = "idle"
    /\ readyRes = <<ResultAlreadyGiven>>
    /\ setup_chan = <<Ok>>

\* C12: a Composer on which setup() was called once and then run(), and a
\* fresh Composer on which run() alone was called, are in the same state once
\* run() has begun: when the setups succeed the state is SetupDone, every
\* runner's setup has been invoked exactly once and every worker is started;
\* when a setup fails no worker is started and run() returns that failure.
\* What run() returns is the same function of the runners and of what the
\* workers wrote to the error slot in both paths.
C12_SetupThenRun ==
    ~InProcess /\ mpc # "idle" /\ Len(setups) <= 1 =>
        /\ cstate = IF FirstFail = 0 THEN "SetupDone" ELSE "Init"
        /\ IF FirstFail = 0
           THEN \A i \in Ids : setupCalls[i] = 1 /\ wpc[i] # "none"
           ELSE /\ cpc = "done"
                /\ cres = SetupOutcome
                /\ \A i \in Ids : wpc[i] = "none"
        /\ cpc = "done" =>
              cres = IF FirstFail # 0 THEN SetupOutcome
                     ELSE IF writes = <<>> THEN Ok
                     ELSE Err(writes[Len(writes)])

C12_Witness ==
    /\ ~InProcess
    /\ setups = <<Ok>>
    /\ N = NumRunners
    /\ cpc = "done"
    /\ cres = Ok
    /\ \A i \in Ids : setupCalls[i] = 1 /\ wres[i] = Ok

\* C13: over any sequence of ready(), wait() and signal() calls the ProcState
\* changes only from Init to SetupDone, in a call to ready(), and from Init or
\* SetupDone to Finished, in a call to wait(); it never moves backwards; a
\* signal() call, and the completion of its send, leave it unchanged; and a
\* call that returns ResultAlreadyGiven leaves it unchanged.
C13_ProcStateMachine ==
    [][LET called == Len(calls') = Len(calls) + 1
           op == calls'[Len(calls')].op
       IN /\ pstate' # pstate =>
                /\ called
                /\ \/ op = "ready" /\ pstate = "Init" /\ pstate' = "SetupDone"
                   \/ /\ op = "wait"
                      /\ pstate \in {"Init", "SetupDone"}
                      /\ pstate' = "Finished"
          /\ sent' # sent \/ signals' # signals => pstate' = pstate
          /\ (\/ readyRes' = Append(readyRes, ResultAlreadyGiven)
              \/ waitRes' = Append(waitRes, ResultAlreadyGiven))
             => pstate' = pstate]_vars

C13_Witness ==
    /\ Len(calls) = 3
    /\ calls[1] = [op |-> "ready", at |-> "Init"]
    /\ calls[2] = [op |-> "wait", at |-> "SetupDone"]
    /\ calls[3].at = "Finished"
    /\ pstate = "Finished"
    /\ sent # <<>>

\* C14: Composer.setup() calls the runners' setup in collection order and
\* stops at the first runner whose setup fails: a runner placed after a runner
\* whose setup fails never has its setup called, every runner up to and
\* including the first failing one has it called on every setup, and what
\* setup() returns is that first failure (Ok when no setup fails); the state
\* is SetupDone exactly when a setup has been made and every runner's setup
\* succeeded, and stays Init otherwise.
C14_SetupStopsAtFirstFailure ==
    LET fails(i) == ~runners[i].setupOk
        first(i) == fails(i) /\ \A k \in 1..(i - 1) : ~fails(k)
    IN /\ \A i, j \in Ids : fails(i) /\ i < j => setupCalls[j] = 0
       /\ \A i \in Ids :
             (\A k \in 1..(i - 1) : ~fails(k)) => setupCalls[i] = setupCalls[1]
       /\ cstate = "SetupDone" <=>
             setupCalls[1] >= 1 /\ \A i \in Ids : ~fails(i)
       /\ cstate \in {"Init", "SetupDone"}
       /\ \A k \in 1..Len(setups) :
             IF \E i \in Ids : fails(i)
             THEN \E i \in Ids : first(i) /\ setups[k] = Err(SetupErr(i))
             ELSE setups[k] = Ok

C14_Witness ==
    /\ N = 2
    /\ ~runners[1].setupOk
    /\ setups = <<Err(SetupErr(1))>>
    /\ setupCalls = <<1, 0>>
    /\ cstate = "Init"

WorkerLive(i) == wpc[i] \in {"run", "report", "lock", "notify"}
FanLive == fpc \in {"select", "bcast"}

\* C15: structured join. Composer.run sends the stop instruction, reads the
\* error slot and returns only after every worker has completed; the fan-out
\* thread is alive in every state where some worker is running; no worker
\* writes the error slot once it has been read; and when Composer.run has
\* returned neither a worker nor the fan-out thread is still running.
C15_StructuredJoin ==
    /\ [](/\ cpc \in {"stop", "join", "done"} => \A i \in Ids : ~WorkerLive(i)
          /\ (\E i \in Ids : WorkerLive(i)) => FanLive /\ cpc = "scope"
          /\ cpc = "done" => ~FanLive /\ lockHolder = 0)
    /\ [][cpc' = "done" => writes' = writes /\ (cpc = "done" => errSlot' = errSlot)]_vars

C15_Witness ==
    /\ cpc = "done"
    /\ fpc = "done"
    /\ Len(writes) = 2
    /\ cres = Err(writes[2])
    /\ errSlot = 0

\* C16: once every worker has returned, the stop instruction sent by
\* Composer.run is eventually accepted by the fan-out thread, which then
\* terminates, and Composer.run returns, whatever signals are pending on the
\* inbound stream or were forwarded to the channels of runners that have
\* returned.
C16_StopAccepted ==
    (cpc \in {"scope", "stop"} /\ \A i \in Ids : wpc[i] = "done")
        ~> (fpc = "done" /\ cpc = "done")

\* C17: if every one of N >= 2 runners fails, every worker completes its
\* write to the error slot and its send on the failure-notification channel,
\* all workers terminate, and Composer.run returns Err.
C17_AllFail ==
    (N >= 2 /\ \A i \in Ids : Failed(i))
        ~> (/\ \A i \in Ids : wpc[i] = "done"
            /\ Len(writes) = N
            /\ cpc = "done"
            /\ cres.kind = "Err")

\* C18: the background thread publishes the setup outcome before it invokes
\* run, and a run outcome only after a successful setup and after run has
\* returned; at most one value is ever published on each result channel.
\* Hence a ready() that reaches its recv finds the setup outcome as soon as
\* the thread has left setup, and returns it, whether or not any signal was
\* sent: also before any signal, with the runners blocked in run.
C18_PublishOrder ==
    /\ [](InProcess =>
            /\ Len(published) <= 2
            /\ tpc = "setup" <=> published = <<>>
            /\ published # <<>> =>
                  published[1] = [chan |-> "setup", val |-> MapErr(SetupOutcome)]
            /\ cpc # "idle" => published # <<>> /\ published[1].val = Ok
            /\ Len(published) = 2 =>
                  /\ FirstFail = 0
                  /\ cpc = "done"
                  /\ published[2] = [chan |-> "run", val |-> MapErr(cres)]
            /\ Len(published) = 2 <=> tpc = "done" /\ FirstFail = 0)
    /\ [](callerPc = "ready" /\ tpc # "setup" =>
            setup_chan = <<MapErr(SetupOutcome)>>)
    /\ (callerPc = "ready"
          ~> (callerPc = "idle" /\ readyRes = <<MapErr(SetupOutcome)>>))

C18_Witness ==
    /\ InProcess
    /\ N = NumRunners
    /\ \A i \in Ids : runners[i].kind = "OnSignal" /\ wpc[i] = "run"
    /\ readyRes = <<Ok>>
    /\ sent = <<>>
    /\ published = <<[chan |-> "setup", val |-> Ok]>>

\* C19: the fan-out thread never busy-polls: no iteration of its loop
\* completes without consuming an external signal, a failure notification or
\* the stop instruction, in every state of the inbound signal stream, closed
\* included.
C19_NoBusyPoll == ~spun

\* C20: if the runner's setup fails under a Process, a wait() that reaches
\* its recv does not block forever: once the background thread has ended
\* without publishing a run result it returns CouldNotRecvResult, whether or
\* not ready() was called first.
C20_WaitAfterSetupFailure ==
    /\ [](InProcess /\ FirstFail # 0 =>
            /\ run_chan = <<>>
            /\ \A k \in 1..Len(published) : published[k].chan # "run"
            /\ waitRes # <<>> => waitRes[1] = CouldNotRecvResult /\ tpc = "done")
    /\ (callerPc = "wait" /\ FirstFail # 0)
          ~> (callerPc = "idle" /\ waitRes = <<CouldNotRecvResult>>)

C20_Witness ==
    /\ InProcess
    /\ FirstFail # 0
    /\ Len(calls) = 2
    /\ calls[1].op = "ready"
    /\ calls[2].op = "wait"
    /\ readyRes = <<RunnerError(SetupErr(FirstFail))>>
    /\ waitRes = <<CouldNotRecvResult>>

\* C21: when Composer.run is called in state Init and its implicit setup
\* fails, run returns that setup failure at once: no worker and no fan-out
\* thread is ever spawned, nothing is ever put on a per-runner channel or on
\* the failure-notification channel, and no runner's run is invoked.
C21_SetupFailureReturnsEarly ==
    FirstFail # 0 =>
        /\ cstate = "Init"
        /\ cpc \in {"idle", "done"}
        /\ cpc = "done" => cres = Err(SetupErr(FirstFail))
        /\ fpc = "none"
        /\ observed = <<>>
        /\ errChan = 0 /\ errSlot = 0 /\ writes = <<>>
        /\ \A i \in Ids : /\ wpc[i] = "none"
                           /\ wres[i] = NoResult
                           /\ put[i] = <<>>
                           /\ got[i] = <<>>

C21_Witness ==
    /\ ~InProcess
    /\ setups = <<>>
    /\ N = 2
    /\ FirstFail = 2
    /\ mpc = "run"
    /\ cpc = "done"
    /\ cres = Err(SetupErr(2))
    /\ setupCalls = <<1, 1>>
    /\ sent # <<>>

\* C22: over any sequence of Composer.setup() and Composer.run() calls on
\* one Composer, no contained runner's setup is invoked more than once.
C22_SetupAtMostOnce == \A i \in Ids : setupCalls[i] <= 1

\* C23: the background thread never blocks on publishing a result: it
\* publishes the setup outcome and, once the runner's run has returned, the
\* run outcome, whether or not the owner ever calls ready() or wait(); so the
\* thread ends as soon as the runner's setup and run have returned, the
\* unread results staying queued, and a drop of the Process then completes.
C23_PublishNeverBlocks ==
    /\ [](InProcess /\ calls = <<>> /\ tpc = "done" =>
            /\ setup_chan = <<MapErr(SetupOutcome)>>
            /\ FirstFail = 0 => run_chan = <<MapErr(cres)>>)
    /\ (tpc = "setup" ~> tpc # "setup")
    /\ (tpc = "run" /\ cpc = "done" ~> tpc = "done")
    /\ (callerPc = "drop" /\ (FirstFail # 0 \/ cpc = "done")
          ~> callerPc = "dropped")

C23_Witness ==
    /\ callerPc = "dropped"
    /\ calls = <<>>
    /\ FirstFail = 0
    /\ N = NumRunners
    /\ setup_chan = <<Ok>>
    /\ run_chan = <<Ok>>

ErrBroadcasts == Len(SelectSeq(observed, LAMBDA x : x.src = "err"))
Notified == {i \in Ids : Failed(i) /\ wpc[i] = "done"}

\* C24: the fan-out thread broadcasts the error signal only in response to a
\* failure notification: the error-signal broadcasts and the notifications
\* still waiting are together as many as the failed workers that have sent
\* theirs, so the broadcasts are at most as many as the workers whose run has
\* failed; and when no worker has failed every signal put on a per-runner
\* channel is a copy of an external signal.
C24_ErrorSignalOnlyOnFailure ==
    /\ ErrBroadcasts + errChan = Cardinality(Notified)
    /\ ErrBroadcasts <= Cardinality({i \in Ids : Failed(i)})
    /\ ~SomeFailed =>
          /\ ErrBroadcasts = 0
          /\ \A i \in Ids : \A k \in 1..Len(put[i]) :
                /\ put[i][k].src = "ext"
                /\ k <= Len(sent)
                /\ put[i][k].sig = sent[k]

C24_Witness ==
    /\ InProcess
    /\ N = 2
    /\ sent = <<"HUP">>
    /\ \A i \in Ids : Failed(i)
    /\ ErrBroadcasts = 2
    /\ \A i \in Ids : put[i] = <<ExtItem("HUP"), ErrItem>>

====
